---- MODULE Spec2Model ----
(***************************************************************************)
(* Model of gilly_utilities/system.py:                                     *)
(*   - file_checker, file_checker2, File_Aligner_NoSize, File_Aligner      *)
(*     (pure functions over a catalog, a requested range and the           *)
(*     filesystem), checked under Spec;                                    *)
(*   - DelayedKeyboardInterrupt (signal-deferring context manager),        *)
(*     checked under SpecDKI.                                              *)
(***************************************************************************)
EXTENDS Integers, Sequences, FiniteSets, TLC

\* ------------------------------------------------------------------ bounds
MaxLen == 2       \* longest dates / files / date_range array
NumDates == 2     \* number of distinct timestamps
MaxSize == 2      \* largest st_size of a file
MaxMin == 1       \* largest file_size_min
OpLen == 2        \* steps of the operation protected by the with-block
MaxSignals == 2   \* signals arriving during one run

Timestamps == 1..NumDates
Paths == {"a.txt", "b.txt"}

\* yes_file / no_file / corrupt_file: the defaults and a caller's own codes
DefaultCodes == [yes |-> 1, no |-> 0, corrupt |-> 2]
Codes == {DefaultCodes, [yes |-> 4, no |-> 5, corrupt |-> 6]}

SeqsUpTo(S, n) == UNION {[1..k -> S] : k \in 0..n}

VARIABLES
    dates,            \* catalog timestamps (numpy array)
    files,            \* catalog paths (numpy array), parallel to dates
    date_range,       \* requested timestamps
    file_size_min,
    codes,            \* yes_file, no_file, corrupt_file
    exists,           \* filesystem: the paths that exist
    st_size,          \* filesystem: size of each existing path
    fn,               \* the function that was called ("" before the call)
    out,              \* its outcome
    pc,               \* DelayedKeyboardInterrupt: position of the main thread
    installed,        \* signal -> handler currently installed ("orig"/"self")
    origKind,         \* signal -> kind of the handler installed before __enter__
    saved,            \* ctrlc_handler, ctrlz_handler, ctrlslash_handler
    signal_received,  \* self.signal_received ("False" or the signal recorded)
    progress,         \* steps of the protected operation completed
    invoked,          \* calls of previously installed handlers so far
    nsig,             \* signals that have arrived
    bodySignals,      \* signals that arrived inside the with-block
    exitCause         \* how the run ended

fvars == <<dates, files, date_range, file_size_min, codes, exists, st_size, fn, out>>
dvars == <<pc, installed, origKind, saved, signal_received, progress, invoked,
           nsig, bodySignals, exitCause>>
vars == <<fvars, dvars>>

\* ------------------------------------------------------------ numpy helpers
\* dates == d : element-wise comparison
Mask(arr, d) == [k \in 1..Len(arr) |-> arr[k] = d]

\* np.sum(mask)
NpSum(mask) == Cardinality({k \in 1..Len(mask) : mask[k]})

\* np.in1d(a, b)
In1d(a, b) == [i \in 1..Len(a) |-> \E k \in 1..Len(b) : b[k] = a[i]]

RECURSIVE Take(_, _, _)
Take(arr, mask, k) ==
    IF k > Len(arr) THEN <<>>
    ELSE (IF mask[k] THEN <<arr[k]>> ELSE <<>>) \o Take(arr, mask, k + 1)

\* arr[mask] : boolean indexing; IndexError when the lengths differ
BoolIndex(arr, mask) ==
    IF Len(arr) # Len(mask) THEN [err |-> TRUE, val |-> <<>>]
    ELSE [err |-> FALSE, val |-> Take(arr, mask, 1)]

\* os.stat(path) : OSError when the path does not exist
OsStat(p) == [err |-> p \notin exists, size |-> st_size[p]]

Outcome(r, res, loc, dat, n) ==
    [raised |-> r, result |-> res, File_Loc |-> loc, File_Date |-> dat, stats |-> n]

\* ------------------------------------------------------------ file_checker
\* FileCheckerElem with ">=" in place of ">" in the size test
FileCheckerElem_ge(ds, d, fs, fsmin, c) ==
    IF NpSum(Mask(ds, d)) = 1
    THEN LET sel == BoolIndex(fs, Mask(ds, d)) IN
         IF sel.err THEN [raised |-> "IndexError", code |-> <<>>, stats |-> 0]
         ELSE LET st == OsStat(sel.val[1]) IN
              IF st.err THEN [raised |-> "OSError", code |-> <<>>, stats |-> 1]
              ELSE [raised |-> "none",
                    code |-> <<IF st.size >= fsmin THEN c.yes ELSE c.corrupt>>,
                    stats |-> 1]
    ELSE [raised |-> "none", code |-> <<c.no>>, stats |-> 0]

\* One pass of the loop body of file_checker (files given)
FileCheckerElem(ds, d, fs, fsmin, c) ==
    IF NpSum(Mask(ds, d)) = 1
    THEN LET sel == BoolIndex(fs, Mask(ds, d)) IN
         IF sel.err THEN [raised |-> "IndexError", code |-> <<>>, stats |-> 0]
         ELSE LET st == OsStat(sel.val[1]) IN
              IF st.err THEN [raised |-> "OSError", code |-> <<>>, stats |-> 1]
              ELSE [raised |-> "none",
                    code |-> <<IF st.size > fsmin THEN c.yes ELSE c.corrupt>>,
                    stats |-> 1]
    ELSE [raised |-> "none", code |-> <<c.no>>, stats |-> 0]

RECURSIVE FileCheckerLoop(_, _, _, _, _, _, _)
FileCheckerLoop(ds, dr, fs, fsmin, c, i, acc) ==
    IF i > Len(dr) THEN acc
    ELSE LET e == FileCheckerElem(ds, dr[i], fs, fsmin, c) IN
         IF e.raised # "none"
         THEN Outcome(e.raised, <<>>, <<>>, <<>>, acc.stats + e.stats)
         ELSE FileCheckerLoop(ds, dr, fs, fsmin, c, i + 1,
                  Outcome("none", acc.result \o e.code, <<>>, <<>>,
                          acc.stats + e.stats))

\* file_checker whose loop stops one element short of date_range
file_checker_short(ds, dr, fs, given, fsmin, c) ==
    IF ~given
    THEN LET m == In1d(dr, ds) IN
         Outcome("none", [i \in 1..Len(dr) |-> IF m[i] THEN 1 ELSE 0],
                 <<>>, <<>>, 0)
    ELSE FileCheckerLoop(ds, SubSeq(dr, 1, Len(dr) - 1), fs, fsmin, c, 1,
                         Outcome("none", <<>>, <<>>, <<>>, 0))

\* file_checker(dates, date_range, files, file_size_min, yes_file, no_file,
\* corrupt_file); given = FALSE stands for files=None
file_checker(ds, dr, fs, given, fsmin, c) ==
    IF ~given
    THEN LET m == In1d(dr, ds) IN
         Outcome("none", [i \in 1..Len(dr) |-> IF m[i] THEN 1 ELSE 0],
                 <<>>, <<>>, 0)
    ELSE FileCheckerLoop(ds, dr, fs, fsmin, c, 1,
                         Outcome("none", <<>>, <<>>, <<>>, 0))

\* ----------------------------------------------------------- file_checker2
\* file_sizes: os.stat of every file, 0 on OSError
FileSizes(fs) ==
    [k \in 1..Len(fs) |-> IF OsStat(fs[k]).err THEN 0 ELSE OsStat(fs[k]).size]

file_checker2(ds, dr, fs, given, fsmin, c) ==
    LET mask_date == In1d(dr, ds)
        base == [i \in 1..Len(dr) |-> IF mask_date[i] THEN c.yes ELSE 0]
    IN  IF ~given THEN Outcome("none", base, <<>>, <<>>, 0)
        ELSE LET file_sizes == FileSizes(fs)
                 mask_filesize == [k \in 1..Len(fs) |-> file_sizes[k] <= fsmin]
                 small == BoolIndex(ds, mask_filesize)
             IN  IF small.err
                 THEN Outcome("IndexError", <<>>, <<>>, <<>>, Len(fs))
                 ELSE LET mask_datesfile == In1d(dr, small.val) IN
                      Outcome("none",
                              [i \in 1..Len(dr) |->
                                  IF mask_datesfile[i] THEN c.corrupt ELSE base[i]],
                              <<>>, <<>>, Len(fs))

\* ------------------------------------------------------------ File_Aligner
\* Values of a File_Date slot (dtype=object): an integer or a timestamp
IntVal(n) == [tag |-> "int", val |-> n]
DateVal(d) == [tag |-> "date", val |-> d]
ZeroDate == IntVal(0)       \* np.zeros(..., dtype=object)
ZeroLoc == ""               \* np.zeros(..., dtype='S256')
SentinelDate == IntVal(2)   \* File_Date[i] = 2
SentinelLoc == "2"          \* File_Loc[i] = 2, stored as the bytes '2'

FileAlignerElem(fs, ds, d, fsmin) ==
    IF NpSum(Mask(ds, d)) = 1
    THEN LET sel == BoolIndex(fs, Mask(ds, d)) IN
         IF sel.err
         THEN [raised |-> "IndexError", loc |-> ZeroLoc, dat |-> ZeroDate, stats |-> 0]
         ELSE LET st == OsStat(sel.val[1]) IN
              IF st.err
              THEN [raised |-> "OSError", loc |-> ZeroLoc, dat |-> ZeroDate, stats |-> 1]
              ELSE IF st.size > fsmin
                   THEN [raised |-> "none", loc |-> sel.val[1], dat |-> DateVal(d),
                         stats |-> 1]
                   ELSE [raised |-> "none", loc |-> SentinelLoc, dat |-> SentinelDate,
                         stats |-> 1]
    ELSE [raised |-> "none", loc |-> ZeroLoc, dat |-> ZeroDate, stats |-> 0]

RECURSIVE FileAlignerLoop(_, _, _, _, _, _)
FileAlignerLoop(fs, ds, dr, fsmin, i, acc) ==
    IF i > Len(dr) THEN acc
    ELSE LET e == FileAlignerElem(fs, ds, dr[i], fsmin) IN
         IF e.raised # "none"
         THEN Outcome(e.raised, <<>>, <<>>, <<>>, acc.stats + e.stats)
         ELSE FileAlignerLoop(fs, ds, dr, fsmin, i + 1,
                  Outcome("none", <<>>, Append(acc.File_Loc, e.loc),
                          Append(acc.File_Date, e.dat), acc.stats + e.stats))

File_Aligner(fs, ds, dr, fsmin) ==
    FileAlignerLoop(fs, ds, dr, fsmin, 1, Outcome("none", <<>>, <<>>, <<>>, 0))

FileAlignerNoSizeElem(fs, ds, d) ==
    IF NpSum(Mask(ds, d)) >= 1
    THEN LET sel == BoolIndex(fs, Mask(ds, d)) IN
         IF sel.err
         THEN [raised |-> "IndexError", loc |-> ZeroLoc, dat |-> ZeroDate]
         ELSE [raised |-> "none", loc |-> sel.val[1], dat |-> DateVal(d)]
    ELSE [raised |-> "none", loc |-> ZeroLoc, dat |-> ZeroDate]

RECURSIVE FileAlignerNoSizeLoop(_, _, _, _, _)
FileAlignerNoSizeLoop(fs, ds, dr, i, acc) ==
    IF i > Len(dr) THEN acc
    ELSE LET e == FileAlignerNoSizeElem(fs, ds, dr[i]) IN
         IF e.raised # "none"
         THEN Outcome(e.raised, <<>>, <<>>, <<>>, 0)
         ELSE FileAlignerNoSizeLoop(fs, ds, dr, i + 1,
                  Outcome("none", <<>>, Append(acc.File_Loc, e.loc),
                          Append(acc.File_Date, e.dat), 0))

File_Aligner_NoSize(fs, ds, dr) ==
    FileAlignerNoSizeLoop(fs, ds, dr, 1, Outcome("none", <<>>, <<>>, <<>>, 0))

\* ------------------------------------------------- the calls (Spec)
Sigs == {"SIGINT", "SIGTSTP", "SIGQUIT"}

DKIIdle ==
    /\ pc = "idle"
    /\ installed = [s \in Sigs |-> "orig"]
    /\ origKind = [s \in Sigs |-> "SIG_DFL"]
    /\ saved = [s \in Sigs |-> "unset"]
    /\ signal_received = "False"
    /\ progress = 0
    /\ invoked = {}
    /\ nsig = 0
    /\ bodySignals = 0
    /\ exitCause = "none"

NoOutcome == Outcome("none", <<>>, <<>>, <<>>, 0)

Init ==
    /\ dates \in SeqsUpTo(Timestamps, MaxLen)
    /\ files \in SeqsUpTo(Paths, MaxLen)
    /\ date_range \in SeqsUpTo(Timestamps, MaxLen)
    /\ file_size_min \in 0..MaxMin
    /\ codes \in Codes
    /\ exists \in SUBSET Paths
    /\ st_size \in [Paths -> 0..MaxSize]
    /\ \A p \in Paths : p \notin exists => st_size[p] = 0
    /\ fn = ""
    /\ out = NoOutcome
    /\ DKIIdle

Call_file_checker ==
    /\ fn = ""
    /\ fn' = "file_checker"
    /\ out' = file_checker(dates, date_range, files, TRUE, file_size_min, codes)
    /\ UNCHANGED <<dates, files, date_range, file_size_min, codes, exists, st_size>>
    /\ UNCHANGED dvars

Call_file_checker_nofiles ==
    /\ fn = ""
    /\ fn' = "file_checker_nofiles"
    /\ out' = file_checker(dates, date_range, <<>>, FALSE, file_size_min, codes)
    /\ UNCHANGED <<dates, files, date_range, file_size_min, codes, exists, st_size>>
    /\ UNCHANGED dvars

Call_file_checker2 ==
    /\ fn = ""
    /\ fn' = "file_checker2"
    /\ out' = file_checker2(dates, date_range, files, TRUE, file_size_min, codes)
    /\ UNCHANGED <<dates, files, date_range, file_size_min, codes, exists, st_size>>
    /\ UNCHANGED dvars

Call_file_checker2_nofiles ==
    /\ fn = ""
    /\ fn' = "file_checker2_nofiles"
    /\ out' = file_checker2(dates, date_range, <<>>, FALSE, file_size_min, codes)
    /\ UNCHANGED <<dates, files, date_range, file_size_min, codes, exists, st_size>>
    /\ UNCHANGED dvars

Call_File_Aligner ==
    /\ fn = ""
    /\ fn' = "File_Aligner"
    /\ out' = File_Aligner(files, dates, date_range, file_size_min)
    /\ UNCHANGED <<dates, files, date_range, file_size_min, codes, exists, st_size>>
    /\ UNCHANGED dvars

Call_File_Aligner_NoSize ==
    /\ fn = ""
    /\ fn' = "File_Aligner_NoSize"
    /\ out' = File_Aligner_NoSize(files, dates, date_range)
    /\ UNCHANGED <<dates, files, date_range, file_size_min, codes, exists, st_size>>
    /\ UNCHANGED dvars

Next ==
    \/ Call_file_checker
    \/ Call_file_checker_nofiles
    \/ Call_file_checker2
    \/ Call_file_checker2_nofiles
    \/ Call_File_Aligner
    \/ Call_File_Aligner_NoSize

Spec == Init /\ [][Next]_vars

\* ------------------------------------------- DelayedKeyboardInterrupt
\* What a handler installed before __enter__ can be: a Python callable that
\* returns, a Python callable that raises (signal.default_int_handler raises
\* KeyboardInterrupt), or the non-callable constants SIG_DFL and SIG_IGN.
Kinds == {"returns", "raises", "SIG_DFL", "SIG_IGN"}

EnterPcs == {"e60", "e61", "e62", "e63"}
ExitPcs == {"x71", "x72", "x75", "x76", "x79", "x80"}

FilesIdle ==
    /\ dates = <<>>
    /\ files = <<>>
    /\ date_range = <<>>
    /\ file_size_min = 0
    /\ codes = DefaultCodes
    /\ exists = {}
    /\ st_size = [p \in Paths |-> 0]
    /\ fn = "DelayedKeyboardInterrupt"
    /\ out = NoOutcome

InitDKI ==
    /\ FilesIdle
    /\ pc = "e60"
    /\ installed = [s \in Sigs |-> "orig"]
    /\ origKind \in [Sigs -> Kinds]
    /\ saved = [s \in Sigs |-> "unset"]
    /\ signal_received = "unset"
    /\ progress = 0
    /\ invoked = {}
    /\ nsig = 0
    /\ bodySignals = 0
    /\ exitCause = "none"

\* self.signal_received = False
Enter60 ==
    /\ pc = "e60"
    /\ signal_received' = "False"
    /\ pc' = "e61"
    /\ UNCHANGED <<installed, origKind, saved, progress, invoked, nsig,
                   bodySignals, exitCause>>
    /\ UNCHANGED fvars

\* self.<slot> = signal.signal(s, self.handler)
Install(s, at, to) ==
    /\ pc = at
    /\ saved' = [saved EXCEPT ![s] = installed[s]]
    /\ installed' = [installed EXCEPT ![s] = "self"]
    /\ pc' = to
    /\ UNCHANGED <<origKind, signal_received, progress, invoked, nsig,
                   bodySignals, exitCause>>
    /\ UNCHANGED fvars

Enter61 == Install("SIGINT", "e61", "e62")
Enter62 == Install("SIGTSTP", "e62", "e63")
Enter63 == Install("SIGQUIT", "e63", "body")

\* one step of the operation inside the with-block
BodyStep ==
    /\ pc = "body"
    /\ progress < OpLen
    /\ progress' = progress + 1
    /\ UNCHANGED <<pc, installed, origKind, saved, signal_received, invoked, nsig,
                   bodySignals, exitCause>>
    /\ UNCHANGED fvars

\* the operation has run to its end: the with statement calls __exit__
BodyEnd ==
    /\ pc = "body"
    /\ progress = OpLen
    /\ pc' = "x71"
    /\ UNCHANGED <<installed, origKind, saved, signal_received, progress, invoked,
                   nsig, bodySignals, exitCause>>
    /\ UNCHANGED fvars

\* signal.signal(s, self.<slot>)
Restore(s, at, to) ==
    /\ pc = at
    /\ installed' = [installed EXCEPT ![s] = saved[s]]
    /\ pc' = to
    /\ UNCHANGED <<origKind, saved, signal_received, progress, invoked, nsig,
                   bodySignals, exitCause>>
    /\ UNCHANGED fvars

\* if self.signal_received: self.<slot>(*self.signal_received)
Redeliver(s, at, to) ==
    /\ pc = at
    /\ IF signal_received \notin Sigs
       THEN /\ pc' = to
            /\ exitCause' = IF to = "done" THEN "returned" ELSE exitCause
            /\ UNCHANGED invoked
       ELSE CASE origKind[s] = "returns" ->
                   /\ invoked' = invoked \cup {[handler |-> s, how |-> "exit"]}
                   /\ pc' = to
                   /\ exitCause' = IF to = "done" THEN "returned" ELSE exitCause
              [] origKind[s] = "raises" ->
                   /\ invoked' = invoked \cup {[handler |-> s, how |-> "exit"]}
                   /\ pc' = "done"
                   /\ exitCause' = "redelivered"
              [] OTHER ->   \* SIG_DFL, SIG_IGN are not callable: TypeError
                   /\ pc' = "done"
                   /\ exitCause' = "TypeError"
                   /\ UNCHANGED invoked
    /\ UNCHANGED <<installed, origKind, saved, signal_received, progress, nsig,
                   bodySignals>>
    /\ UNCHANGED fvars

Exit71 == Restore("SIGINT", "x71", "x72")
Exit72 == Redeliver("SIGINT", "x72", "x75")
Exit75 == Restore("SIGTSTP", "x75", "x76")
Exit76 == Redeliver("SIGTSTP", "x76", "x79")
Exit79 == Restore("SIGQUIT", "x79", "x80")
Exit80 == Redeliver("SIGQUIT", "x80", "done")

\* a handler that records the signal and passes it on at once
Handler_immediate(s) ==
    /\ signal_received' = s
    /\ invoked' = invoked \cup {[handler |-> s, how |-> "direct"]}
    /\ UNCHANGED <<pc, exitCause>>

\* handler(self, sig, frame): self.signal_received = (sig, frame)
Handler(s) ==
    /\ signal_received' = s
    /\ UNCHANGED <<pc, invoked, exitCause>>

\* the signal reaches the handler installed before __enter__
DirectDelivery(s) ==
    /\ UNCHANGED signal_received
    /\ CASE origKind[s] = "returns" ->
              /\ invoked' = invoked \cup {[handler |-> s, how |-> "direct"]}
              /\ UNCHANGED <<pc, exitCause>>
         [] origKind[s] = "raises" ->
              /\ invoked' = invoked \cup {[handler |-> s, how |-> "direct"]}
              /\ IF pc = "body"
                 THEN pc' = "x71" /\ UNCHANGED exitCause
                 ELSE pc' = "done" /\ exitCause' = "interrupted"
         [] origKind[s] = "SIG_IGN" ->
              UNCHANGED <<pc, invoked, exitCause>>
         [] OTHER ->   \* SIG_DFL: SIGTSTP stops the process, the others end it
              /\ UNCHANGED invoked
              /\ IF s = "SIGTSTP"
                 THEN UNCHANGED <<pc, exitCause>>
                 ELSE pc' = "killed" /\ exitCause' = "killed"

\* a signal arrives between two bytecodes of the main thread
Signal(s) ==
    /\ pc \in EnterPcs \cup {"body"} \cup ExitPcs
    /\ nsig < MaxSignals
    /\ nsig' = nsig + 1
    /\ bodySignals' = IF pc = "body" THEN bodySignals + 1 ELSE bodySignals
    /\ IF installed[s] = "self" THEN Handler(s) ELSE DirectDelivery(s)
    /\ UNCHANGED <<installed, origKind, saved, progress>>
    /\ UNCHANGED fvars

SignalSIGINT == Signal("SIGINT")
SignalSIGTSTP == Signal("SIGTSTP")
SignalSIGQUIT == Signal("SIGQUIT")

NextDKI ==
    \/ Enter60 \/ Enter61 \/ Enter62 \/ Enter63
    \/ BodyStep \/ BodyEnd
    \/ Exit71 \/ Exit72 \/ Exit75 \/ Exit76 \/ Exit79 \/ Exit80
    \/ SignalSIGINT \/ SignalSIGTSTP \/ SignalSIGQUIT

SpecDKI == InitDKI /\ [][NextDKI]_vars

\* ================================================================ claims
WellFormed == Len(dates) = Len(files)
Matches(d) == {k \in 1..Len(dates) : dates[k] = d}
FirstMatch(d) == CHOOSE k \in Matches(d) : \A j \in Matches(d) : k <= j
SizeOf(p) == IF p \in exists THEN st_size[p] ELSE 0
WithFiles == fn \in {"file_checker", "file_checker2"}
AnyChecker == fn \in {"file_checker", "file_checker2", "file_checker_nofiles",
                      "file_checker2_nofiles"}
Returned == out.raised = "none"
Positions == 1..Len(date_range)

C2_MissingFileIsCorrupt ==
    (WithFiles /\ WellFormed) =>
        /\ Returned
        /\ \A i \in Positions : \A k \in 1..Len(dates) :
              (Matches(date_range[i]) = {k} /\ files[k] \notin exists) =>
                  out.result[i] = codes.corrupt

\* C3: when two or more catalog entries share a requested timestamp, the
\* first of them in catalog order alone decides the result.
C3_FirstMatchDecides ==
    (WithFiles /\ WellFormed /\ Returned) =>
        \A i \in Positions :
            Cardinality(Matches(date_range[i])) >= 2 =>
                out.result[i] =
                    IF SizeOf(files[FirstMatch(date_range[i])]) > file_size_min
                    THEN codes.yes ELSE codes.corrupt

\* C4: a requested timestamp that equals no catalog timestamp gets no_file.
C4_NoMatchIsMissing ==
    (WithFiles /\ WellFormed /\ Returned) =>
        \A i \in Positions :
            Matches(date_range[i]) = {} => out.result[i] = codes.no

\* C5: the sequence returned has one entry per requested timestamp, the i-th
\* entry being the code of the i-th requested timestamp (what the same call
\* returns for that timestamp alone), empty and repeating ranges included.
Recheck(dr) ==
    CASE fn = "file_checker" ->
           file_checker(dates, dr, files, TRUE, file_size_min, codes)
      [] fn = "file_checker_nofiles" ->
           file_checker(dates, dr, <<>>, FALSE, file_size_min, codes)
      [] fn = "file_checker2" ->
           file_checker2(dates, dr, files, TRUE, file_size_min, codes)
      [] fn = "file_checker2_nofiles" ->
           file_checker2(dates, dr, <<>>, FALSE, file_size_min, codes)

C5_ResultLength ==
    (AnyChecker /\ (WellFormed \/ fn \notin {"file_checker", "file_checker2"})
                /\ Returned) =>
        /\ Len(out.result) = Len(date_range)
        /\ \A i \in Positions :
              /\ Recheck(<<date_range[i]>>).raised = "none"
              /\ out.result[i] = Recheck(<<date_range[i]>>).result[1]

C5_Witness ==
    /\ fn = "file_checker" /\ WellFormed /\ Returned
    /\ Len(date_range) >= 2
    /\ date_range[1] = date_range[2]
    /\ Matches(date_range[1]) # {}
    /\ Len(out.result) = Len(date_range)

\* C6: File_Aligner: a match with size > file_size_min puts the matched path
\* and the requested timestamp in the slots, a match with size <=
\* file_size_min puts the sentinel in both, no match leaves both at zero.
C6_AlignerSlots ==
    (fn = "File_Aligner" /\ WellFormed /\ Returned) =>
        \A i \in Positions :
            LET d == date_range[i] IN
            IF Matches(d) = {}
            THEN out.File_Loc[i] = ZeroLoc /\ out.File_Date[i] = ZeroDate
            ELSE \/ \E k \in Matches(d) :
                       /\ SizeOf(files[k]) > file_size_min
                       /\ out.File_Loc[i] = files[k]
                       /\ out.File_Date[i] = DateVal(d)
                 \/ \E k \in Matches(d) :
                       /\ SizeOf(files[k]) <= file_size_min
                       /\ out.File_Loc[i] = SentinelLoc
                       /\ out.File_Date[i] = SentinelDate

\* C7: dates and files of different lengths: the call ends in an error
\* without any filesystem size query and without a result.
C7_MismatchFailsFast ==
    (WithFiles /\ ~WellFormed) => (out.raised # "none" /\ out.stats = 0)

\* C8: inside the with-block a signal never interrupts the operation: it is
\* only recorded, the operation runs to its end, previously installed
\* handlers are called only after the block, and __exit__ calls one only
\* when a signal was recorded.
C8_Deferred ==
    [][ /\ pc = "body" =>
            /\ invoked' = invoked
            /\ progress' >= progress
            /\ pc' # "body" => (pc' = "x71" /\ progress = OpLen)
            /\ nsig' # nsig => signal_received' \in Sigs
        /\ (\E s \in Sigs : [handler |-> s, how |-> "exit"] \in invoked' \ invoked)
              => (pc \in ExitPcs /\ signal_received \in Sigs)
      ]_vars

C8_Witness ==
    /\ pc = "done"
    /\ bodySignals > 0
    /\ progress = OpLen
    /\ [handler |-> "SIGINT", how |-> "exit"] \in invoked

\* C9: after __exit__ finishes, normally or with an exception raised by a
\* re-delivered handler, SIGINT, SIGTSTP and SIGQUIT all have the handlers
\* they had before __enter__.
C9_HandlersRestored ==
    (pc = "done" /\ exitCause \in {"returned", "redelivered"}) =>
        \A s \in Sigs : installed[s] = "orig"

\* C10: for a catalog with pairwise distinct timestamps whose files all
\* exist, file_checker and file_checker2 (files given, same codes) return
\* the same sequence.
C10_CheckersAgree ==
    (/\ fn = "file_checker"
     /\ WellFormed
     /\ \A j, k \in 1..Len(dates) : dates[j] = dates[k] => j = k
     /\ \A k \in 1..Len(files) : files[k] \in exists) =>
        LET o2 == file_checker2(dates, date_range, files, TRUE, file_size_min, codes)
        IN  out.raised = o2.raised /\ out.result = o2.result

====
